---- MODULE Spec2Model ----
(***************************************************************************)
(* Model of DataOps/cleandata.py: clean(df), the row validation and        *)
(* normalisation pass over a product-nutrition table.                      *)
(*                                                                         *)
(* A string is a sequence of one-character strings, so that strip,         *)
(* rstrip, endswith, upper and numeric parsing are computed character by   *)
(* character.  A cell is a record tagged by its kind: missing, string,     *)
(* boolean or number.  A table is a set of column names and a sequence of  *)
(* rows; each row keeps its DataFrame index label idx (the position of     *)
(* the row in the table it was built from).                                *)
(***************************************************************************)
EXTENDS Integers, Sequences, FiniteSets, TLC

VARIABLES pc, raw, res, res2

vars == <<pc, raw, res, res2>>

(***************************************************************************)
(* Column definitions (one representative column per group beyond the      *)
(* identifier; the code treats every column of a group alike).             *)
(***************************************************************************)
ID_COL == {"gtin"}

TEXT_COLS == {"product_name", "ingredients_text"}

NUTRIENT_COLS == {"calories"}

TAG_COLS == {"is_whole_grain"}

FLAG_COLS == {"flag_type_error"}

COLS_TO_KEEP ==
  ID_COL \cup TEXT_COLS \cup NUTRIENT_COLS \cup TAG_COLS \cup FLAG_COLS
    \cup {"label_is_anomaly"}

(***************************************************************************)
(* Cells.                                                                  *)
(***************************************************************************)
NA == [t |-> "na"]

StrV(s) == [t |-> "str", s |-> s]

BoolV(b) == [t |-> "bool", b |-> b]

\* A number: sign, integer part, fraction digits without trailing zeros,
\* and whether it is held as a float (isf) or as an integer.
NumV(neg, ip, fp, isf) ==
  [t |-> "num", neg |-> neg, ip |-> ip, fp |-> fp, isf |-> isf]

IsNA(v) == v.t = "na"

(***************************************************************************)
(* Characters and strings.                                                 *)
(***************************************************************************)
Digits == <<"0", "1", "2", "3", "4", "5", "6", "7", "8", "9">>

DigitSet == {Digits[i] : i \in 1..10}

DigitVal(c) == (CHOOSE i \in 1..10 : Digits[i] = c) - 1

\* Code points of the characters the model uses (str comparison is by
\* code point).
CharCode ==
  [c \in {" ", "-", ".", "^", "<", ">"} \cup DigitSet
         \cup {"A", "E", "F", "L", "N", "R", "S", "T", "U", "Y"}
         \cup {"a", "b", "c", "e", "i", "k", "l", "m", "n", "r", "s", "t",
               "u", "y"} |->
     CASE c = " " -> 32  [] c = "-" -> 45  [] c = "." -> 46
       [] c = "<" -> 60  [] c = ">" -> 62  [] c = "^" -> 94
       [] c \in DigitSet -> 48 + DigitVal(c)
       [] c = "A" -> 65  [] c = "E" -> 69  [] c = "F" -> 70
       [] c = "L" -> 76  [] c = "N" -> 78  [] c = "R" -> 82
       [] c = "S" -> 83  [] c = "T" -> 84  [] c = "U" -> 85
       [] c = "Y" -> 89
       [] c = "a" -> 97  [] c = "b" -> 98  [] c = "c" -> 99
       [] c = "e" -> 101 [] c = "i" -> 105 [] c = "k" -> 107
       [] c = "l" -> 108 [] c = "m" -> 109 [] c = "n" -> 110
       [] c = "r" -> 114 [] c = "s" -> 115 [] c = "t" -> 116
       [] c = "u" -> 117 [] c = "y" -> 121]

\* str.upper on one character.
UpperChar(c) ==
  IF CharCode[c] >= 97 /\ CharCode[c] <= 122
    THEN CHOOSE d \in DOMAIN CharCode : CharCode[d] = CharCode[c] - 32
    ELSE c

\* A faulty variant of upper: the case is left as it is.
upper_unchanged(s) == s

\* Series.str.upper
upper(s) == [i \in 1..Len(s) |-> UpperChar(s[i])]

IsSpace(c) == c = " "

RECURSIVE lstrip(_)
lstrip(s) ==
  IF s # <<>> /\ IsSpace(Head(s)) THEN lstrip(Tail(s)) ELSE s

RECURSIVE rstripSpace(_)
rstripSpace(s) ==
  IF s # <<>> /\ IsSpace(s[Len(s)])
    THEN rstripSpace(SubSeq(s, 1, Len(s) - 1))
    ELSE s

\* Series.str.strip(): whitespace off both ends.
strip(s) == rstripSpace(lstrip(s))

\* Series.str.rstrip("^"): every trailing caret, nothing else.
RECURSIVE rstripCaret(_)
rstripCaret(s) ==
  IF s # <<>> /\ s[Len(s)] = "^"
    THEN rstripCaret(SubSeq(s, 1, Len(s) - 1))
    ELSE s

\* Series.str.endswith("^")
endswithCaret(s) == s # <<>> /\ s[Len(s)] = "^"

\* Python's str ordering: lexicographic by code point.
RECURSIVE StrLess(_, _)
StrLess(a, b) ==
  IF b = <<>> THEN FALSE
  ELSE IF a = <<>> THEN TRUE
  ELSE IF CharCode[Head(a)] # CharCode[Head(b)]
    THEN CharCode[Head(a)] < CharCode[Head(b)]
    ELSE StrLess(Tail(a), Tail(b))

(***************************************************************************)
(* Numbers and their string forms.                                         *)
(***************************************************************************)
RECURSIVE NatToChars(_)
NatToChars(n) ==
  IF n < 10 THEN <<Digits[n + 1]>>
  ELSE Append(NatToChars(n \div 10), Digits[(n % 10) + 1])

RECURSIVE CharsToNat(_)
CharsToNat(s) ==
  IF s = <<>> THEN 0
  ELSE 10 * CharsToNat(SubSeq(s, 1, Len(s) - 1)) + DigitVal(s[Len(s)])

AllDigits(s) == \A i \in 1..Len(s) : s[i] \in DigitSet

RECURSIVE DropTrailingZeros(_)
DropTrailingZeros(s) ==
  IF s # <<>> /\ s[Len(s)] = "0"
    THEN DropTrailingZeros(SubSeq(s, 1, Len(s) - 1))
    ELSE s

\* Parse of an unsigned decimal literal: digits, optionally with one point.
ParseUnsigned(s, neg) ==
  LET dots == {i \in 1..Len(s) : s[i] = "."} IN
  IF dots = {} THEN
    IF s # <<>> /\ AllDigits(s)
      THEN NumV(neg, CharsToNat(s), <<>>, FALSE)
      ELSE NA
  ELSE IF Cardinality(dots) > 1 THEN NA
  ELSE
    LET p  == CHOOSE i \in dots : TRUE
        ip == SubSeq(s, 1, p - 1)
        fp == SubSeq(s, p + 1, Len(s))
    IN IF AllDigits(ip) /\ AllDigits(fp) /\ Len(ip) + Len(fp) > 0
         THEN NumV(neg, CharsToNat(ip), DropTrailingZeros(fp), TRUE)
         ELSE NA

\* pd.to_numeric(..., errors="coerce") on one string: the number, or NaN.
ParseNumber(s) ==
  IF s # <<>> /\ s[1] = "-" THEN ParseUnsigned(Tail(s), TRUE)
  ELSE ParseUnsigned(s, FALSE)

\* astype(str) of one cell.
AsStr(v) ==
  CASE v.t = "na"   -> <<"n", "a", "n">>
    [] v.t = "str"  -> v.s
    [] v.t = "bool" -> IF v.b THEN <<"T", "r", "u", "e">>
                              ELSE <<"F", "a", "l", "s", "e">>
    [] v.t = "num"  ->
         (IF v.neg THEN <<"-">> ELSE <<>>) \o NatToChars(v.ip)
           \o (IF v.isf
                 THEN <<".">> \o (IF v.fp = <<>> THEN <<"0">> ELSE v.fp)
                 ELSE <<>>)

(***************************************************************************)
(* Tables.  Row(idx, c): idx is the index label, c maps each column of the *)
(* table to the row's cell.                                                *)
(***************************************************************************)
Row(idx, c) == [idx |-> idx, c |-> c]

Table(cols, rows) == [cols |-> cols, rows |-> rows]

(***************************************************************************)
(* The stages of clean(), in the order of the code.                        *)
(***************************************************************************)

\* keep = [c for c in COLS_TO_KEEP if c in df.columns]
keep(df) == COLS_TO_KEEP \cap df.cols

\* df = df[keep].copy()
Project(df) ==
  Table(keep(df),
        [i \in 1..Len(df.rows) |->
           Row(df.rows[i].idx, [k \in keep(df) |-> df.rows[i].c[k]])])

\* astype("string") of one cell: missing stays missing.
astype_string(v) == IF IsNA(v) THEN NA ELSE StrV(AsStr(v))

\* Convert ID and text columns to string.
ConvertText(df) ==
  Table(df.cols,
        [i \in 1..Len(df.rows) |->
           Row(df.rows[i].idx,
               [k \in df.cols |->
                  IF k \in ID_COL \cup TEXT_COLS
                    THEN astype_string(df.rows[i].c[k])
                    ELSE df.rows[i].c[k]])])

cols_with_carets == TEXT_COLS \cup NUTRIENT_COLS \cup TAG_COLS

\* A faulty variant of has_caret: the cell is not trimmed before the suffix test.
has_caret_untrimmed(v) == endswithCaret(AsStr(v))

\* has_caret of one cell: astype(str).str.strip().fillna("").str.endswith("^")
has_caret(v) == endswithCaret(strip(AsStr(v)))

\* label_is_anomaly of one row: 0, or-ed with has_caret of each column of
\* cols_with_carets the table has.
RowLabel(cols, r) ==
  IF \E col \in cols_with_carets \cap cols : has_caret(r.c[col]) THEN 1 ELSE 0

\* df["label_is_anomaly"] = 0, then the or over the columns.
CreateLabel(df) ==
  LET cols2 == df.cols \cup {"label_is_anomaly"} IN
  Table(cols2,
        [i \in 1..Len(df.rows) |->
           Row(df.rows[i].idx,
               [k \in cols2 |->
                  IF k = "label_is_anomaly"
                    THEN NumV(FALSE, RowLabel(df.cols, df.rows[i]), <<>>, FALSE)
                    ELSE df.rows[i].c[k]])])

\* numeric_val of one cell: astype(str).str.rstrip("^").str.strip()
numeric_val(v) == strip(rstripCaret(AsStr(v)))

\* pd.to_numeric over a column: float64 as soon as one cell is NaN or has a
\* decimal point, int64 otherwise.
ColIsFloat(rows, col) ==
  \E i \in 1..Len(rows) :
    LET n == ParseNumber(numeric_val(rows[i].c[col]))
    IN IsNA(n) \/ n.isf

\* A faulty variant of fillna: NaN is left in place.
fillna_skipped(n, isf) == IF IsNA(n) THEN NA ELSE [n EXCEPT !.isf = isf]

\* df[col].fillna(-1) of one parsed cell of a float64 or int64 column.
fillna(n, isf) ==
  IF IsNA(n) THEN NumV(TRUE, 1, <<>>, isf) ELSE [n EXCEPT !.isf = isf]

\* Convert nutrient columns to numeric (remove carets, fill NaN with -1).
ConvertNutrients(df) ==
  Table(df.cols,
        [i \in 1..Len(df.rows) |->
           Row(df.rows[i].idx,
               [k \in df.cols |->
                  IF k \in NUTRIENT_COLS
                    THEN fillna(ParseNumber(numeric_val(df.rows[i].c[k])),
                                ColIsFloat(df.rows, k))
                    ELSE df.rows[i].c[k]])])

\* A faulty variant of to_bool: the string form is trimmed before it is mapped.
to_bool_trimmed(v) ==
  LET u == upper(strip(AsStr(v))) IN
  BoolV(u = <<"T", "R", "U", "E">> \/ u = <<"1">>)

\* One cell through astype(str).str.upper().map({...}).fillna(False)
to_bool(v) ==
  LET u == upper(AsStr(v)) IN
  BoolV(u = <<"T", "R", "U", "E">> \/ u = <<"1">>)

\* Convert tag and flag columns to boolean.
ConvertBools(df) ==
  Table(df.cols,
        [i \in 1..Len(df.rows) |->
           Row(df.rows[i].idx,
               [k \in df.cols |->
                  IF k \in TAG_COLS \cup FLAG_COLS
                    THEN to_bool(df.rows[i].c[k])
                    ELSE df.rows[i].c[k]])])

\* df.dropna(subset=["gtin"])
gtin_present(r) == ~IsNA(r.c["gtin"])

dropna_gtin(rows) == SelectSeq(rows, gtin_present)

\* A faulty variant of ingredients_present: only the null test, no blank test.
ingredients_notna(r) == ~IsNA(r.c["ingredients_text"])

\* ingredients_text.notna() & (astype(str).str.strip() != "")
ingredients_present(r) ==
  /\ ~IsNA(r.c["ingredients_text"])
  /\ strip(AsStr(r.c["ingredients_text"])) # <<>>

filter_ingredients(rows) == SelectSeq(rows, ingredients_present)

\* The sort key of the row at position p.
GtinKey(rows, p) == rows[p].c["gtin"].s

Swap(t, i, j) == [t EXCEPT ![i] = t[j], ![j] = t[i]]

\* Insertion of the positions pl+1..pr of the index array t, each moved
\* left past the strictly greater keys only.
RECURSIVE InsertLeft(_, _, _, _)
InsertLeft(rows, t, pl, j) ==
  IF j > pl /\ StrLess(GtinKey(rows, t[j]), GtinKey(rows, t[j - 1]))
    THEN InsertLeft(rows, Swap(t, j, j - 1), pl, j - 1)
    ELSE t

RECURSIVE InsertionSort(_, _, _, _, _)
InsertionSort(rows, t, pl, pr, i) ==
  IF i > pr THEN t
  ELSE InsertionSort(rows, InsertLeft(rows, t, pl, i), pl, pr, i + 1)

\* The order of a stable sort (kind="stable", or a string column held by
\* Arrow): rows of equal gtin keep their order.
argsort_stable(rows) ==
  InsertionSort(rows, [i \in 1..Len(rows) |-> i], 1, Len(rows), 2)

\* do ++pi while key(t[pi]) < vp and pi < pj
RECURSIVE ScanRight(_, _, _, _, _)
ScanRight(rows, t, vp, pi, pj) ==
  IF StrLess(GtinKey(rows, t[pi]), vp) /\ pi < pj
    THEN ScanRight(rows, t, vp, pi + 1, pj)
    ELSE pi

\* do --pj while vp < key(t[pj]) and pi < pj
RECURSIVE ScanLeft(_, _, _, _, _)
ScanLeft(rows, t, vp, pi, pj) ==
  IF StrLess(vp, GtinKey(rows, t[pj])) /\ pi < pj
    THEN ScanLeft(rows, t, vp, pi, pj - 1)
    ELSE pj

\* The partition loop: the index array and the place of the pivot.
RECURSIVE Partition(_, _, _, _, _)
Partition(rows, t, vp, pi, pj) ==
  LET i == ScanRight(rows, t, vp, pi + 1, pj)
      j == ScanLeft(rows, t, vp, i, pj - 1)
  IN IF i >= j THEN [t |-> t, pi |-> i]
     ELSE Partition(rows, Swap(t, i, j), vp, i, j)

\* The default kind="quicksort" on an object column: median-of-three
\* quicksort on segments of more than 17 entries, insertion sort below.
\* (The heapsort fallback needs a recursion deeper than the tables here.)
RECURSIVE aquicksort(_, _, _, _)
aquicksort(rows, t, pl, pr) ==
  IF pr - pl > 16 THEN
    LET lt(a, b) == StrLess(GtinKey(rows, a), GtinKey(rows, b))
        pm == pl + ((pr - pl) \div 2)
        t1 == IF lt(t[pm], t[pl]) THEN Swap(t, pm, pl) ELSE t
        t2 == IF lt(t1[pr], t1[pm]) THEN Swap(t1, pr, pm) ELSE t1
        t3 == IF lt(t2[pm], t2[pl]) THEN Swap(t2, pm, pl) ELSE t2
        vp == GtinKey(rows, t3[pm])
        t4 == Swap(t3, pm, pr - 1)
        pt == Partition(rows, t4, vp, pl, pr - 1)
        t5 == Swap(pt.t, pt.pi, pr - 1)
    IN aquicksort(rows, aquicksort(rows, t5, pl, pt.pi - 1), pt.pi + 1, pr)
  ELSE InsertionSort(rows, t, pl, pr, pl + 1)

argsort_quicksort(rows) ==
  aquicksort(rows, [i \in 1..Len(rows) |-> i], 1, Len(rows))

\* A faulty variant of sort_values: the rows are left in input order.
sort_values_skipped(rows) == {rows}

\* df.sort_values("gtin"): the rows in ascending order of gtin.  The
\* default kind="quicksort" is not a stable sort: the order among rows of
\* equal gtin is that of the sort the build runs, numpy's quicksort or a
\* stable one.
sort_values(rows) ==
  { [i \in 1..Len(rows) |-> rows[o[i]]] :
      o \in {argsort_quicksort(rows), argsort_stable(rows)} }

\* A faulty variant of drop_duplicates: keep=False, every row of a shared gtin goes.
drop_duplicates_keep_none(rows) ==
  SelectSeq(rows,
            LAMBDA r : \A j \in 1..Len(rows) :
                         rows[j].c["gtin"] = r.c["gtin"] => rows[j] = r)

\* df.drop_duplicates(subset=["gtin"], keep="first")
drop_duplicates(rows) ==
  LET firstOfKey(i) ==
        \A j \in 1..(i - 1) : rows[j].c["gtin"] # rows[i].c["gtin"]
      RECURSIVE pick(_)
      pick(i) ==
        IF i > Len(rows) THEN <<>>
        ELSE IF firstOfKey(i) THEN <<rows[i]>> \o pick(i + 1)
        ELSE pick(i + 1)
  IN pick(1)

\* The table as it stands before the row filters.
Coerced(df) ==
  ConvertBools(ConvertNutrients(CreateLabel(ConvertText(Project(df)))))

\* clean(df): the set of results the call can produce.  A table without a
\* gtin column makes dropna raise KeyError.
clean(df) ==
  LET co  == Coerced(df)
  IN IF "gtin" \notin co.cols THEN {[status |-> "KeyError"]}
     ELSE
       LET g   == dropna_gtin(co.rows)
           ing == IF "ingredients_text" \in co.cols
                    THEN filter_ingredients(g) ELSE g
       IN { [status                    |-> "ok",
             df                        |-> Table(co.cols, d),
             initial_count             |-> Len(df.rows),
             removed_no_gtin           |-> Len(co.rows) - Len(g),
             removed_empty_ingredients |-> Len(g) - Len(ing),
             removed_duplicates        |-> Len(ing) - Len(d),
             final_count               |-> Len(d),
             total_removed             |-> Len(df.rows) - Len(d)] :
            d \in { drop_duplicates(s) : s \in sort_values(ing) } }

(***************************************************************************)
(* Input tables.                                                           *)
(***************************************************************************)
MaxRows == 3

IntV(n) == NumV(FALSE, n, <<>>, FALSE)

\* Single-row tables over a wide range of cells.
GtinCells == {StrV(<<>>), StrV(<<"5", "^">>)}

IngredientCells ==
  {NA, StrV(<<"m", "i", "l", "k">>), StrV(<<"m", "i", "l", "k", "^">>),
   StrV(<<"m", "i", "^", "l", "k", " ">>)}

CalorieCells ==
  {NA, IntV(50),
   StrV(<<"5", "0">>), StrV(<<"5", "0", "^">>), StrV(<<" ", "5", "0", "^", " ">>),
   StrV(<<"5", "0", " ", "^">>), StrV(<<"5", "0", "^", "^">>),
   StrV(<<"a", "b", "c">>), StrV(<<"-", "5">>), StrV(<<"5", ".", "5", "0">>)}

TagCells ==
  {NA, BoolV(TRUE),
   StrV(<<"T", "R", "U", "E">>), StrV(<<"t", "r", "u", "e">>),
   StrV(<<"T", "R", "U", "E", " ">>), StrV(<<"1", "^">>),
   StrV(<<"1">>), StrV(<<"0">>)}

FlagCells ==
  {StrV(<<"1">>), StrV(<<"T", "R", "U", "E", "^">>),
   StrV(<<"F", "a", "l", "s", "e">>)}

\* An optional further column: a second Text column, a supplied label, or a
\* column outside the schema.
ExtraCells ==
  {[col |-> "product_name", v |-> NA],
   [col |-> "product_name", v |-> StrV(<<"a", "b", "^">>)],
   [col |-> "label_is_anomaly", v |-> IntV(1)],
   [col |-> "brand", v |-> StrV(<<"s", "^">>)]}

BaseCells ==
  { ("gtin" :> g) @@ ("ingredients_text" :> i) @@ ("calories" :> c)
      @@ ("is_whole_grain" :> tg) @@ ("flag_type_error" :> fl) :
      g \in GtinCells, i \in IngredientCells, c \in CalorieCells,
      tg \in TagCells, fl \in FlagCells }

CellTables ==
  { Table(DOMAIN c, <<Row(1, c)>>) :
      c \in BaseCells \cup { b @@ (e.col :> e.v) : b \in BaseCells, e \in ExtraCells } }

\* Tables of up to MaxRows rows over a narrow range of cells, with and
\* without the ingredients_text and gtin columns.
RowGtins == {NA, StrV(<<"5">>), IntV(10)}

RowIngredients == {StrV(<<" ">>), StrV(<<"m", "i", "l", "k">>)}

RowCalories == {StrV(<<"a", "b", "c">>), StrV(<<"1", "0">>)}

NarrowRows ==
  { ("gtin" :> g) @@ ("ingredients_text" :> i) @@ ("calories" :> c) :
      g \in RowGtins, i \in RowIngredients, c \in RowCalories }
  \cup { ("gtin" :> g) @@ ("calories" :> c) : g \in RowGtins, c \in RowCalories }
  \cup { ("ingredients_text" :> i) @@ ("calories" :> c) :
           i \in RowIngredients, c \in RowCalories }

RowShapes == { DOMAIN r : r \in NarrowRows }

RowsOf(cols) == {r \in NarrowRows : DOMAIN r = cols}

\* The table of the rows f[1], ..., f[n], indexed by position.
TableOf(cols, f) == Table(cols, [i \in DOMAIN f |-> Row(i, f[i])])

\* Tables of TieRows rows, long enough for the quicksort to partition:
\* one leading row, then rows that all share the gtin "5", one of them
\* with an unparseable nutrient.
TieRows == 18

TieTables ==
  { Table({"gtin", "calories"},
          [i \in 1..TieRows |->
             Row(i, ("gtin" :> (IF i = 1 THEN g ELSE StrV(<<"5">>)))
                      @@ ("calories" :> (IF i = k THEN StrV(<<"a", "b", "c">>)
                                                  ELSE StrV(<<"1", "0">>))))]) :
      g \in RowGtins, k \in 1..TieRows }

Init ==
  /\ pc = "raw"
  /\ \/ raw \in CellTables
     \/ \E cols \in RowShapes, n \in 0..MaxRows :
          \E f \in [1..n -> RowsOf(cols)] : raw = TableOf(cols, f)
     \/ raw \in TieTables
  /\ res = [status |-> "none"]
  /\ res2 = [status |-> "none"]

\* res = clean(raw)
Clean ==
  /\ pc = "raw"
  /\ \E r \in clean(raw) :
       /\ res' = r
       /\ pc' = IF r.status = "ok" THEN "cleaned" ELSE "raised"
  /\ UNCHANGED <<raw, res2>>

\* res2 = clean(res.df): clean applied to its own output.
CleanAgain ==
  /\ pc = "cleaned"
  /\ \E r \in clean(res.df) :
       /\ res2' = r
       /\ pc' = "recleaned"
  /\ UNCHANGED <<raw, res>>

Next == Clean \/ CleanAgain

Spec == Init /\ [][Next]_vars

(***************************************************************************)
(* Vocabulary of the properties, stated on the raw input cells and on the  *)
(* returned table independently of the stages above.                       *)
(***************************************************************************)
Done == pc \in {"cleaned", "recleaned"}

OutRows == res.df.rows

OutCols == res.df.cols

\* The raw cell of column col in the input row an output row came from.
RawCell(r, col) == raw.rows[r.idx].c[col]

Label(r) == r.c["label_is_anomaly"].ip

\* The last character of s that is not a blank is a caret.
CaretLast(s) ==
  \E i \in 1..Len(s) : s[i] = "^" /\ \A j \in (i + 1)..Len(s) : s[j] = " "

\* s without its leading and trailing blanks, as a slice.
Trimmed(s) ==
  LET nb == {i \in 1..Len(s) : s[i] # " "} IN
  IF nb = {} THEN <<>>
  ELSE SubSeq(s, CHOOSE i \in nb : \A j \in nb : i <= j,
                 CHOOSE i \in nb : \A j \in nb : j <= i)

IsMinusOne(v) == v.t = "num" /\ v.neg /\ v.ip = 1 /\ v.fp = <<>>

NonNegative(v) == v.t = "num" /\ (~v.neg \/ (v.ip = 0 /\ v.fp = <<>>))

\* Two numbers of equal value, whatever their dtype.
SameNumber(v, w) ==
  v.t = "num" /\ w.t = "num" /\ v.neg = w.neg /\ v.ip = w.ip /\ v.fp = w.fp

\* An input row passes the identifier and text-completeness filters.
MissingGtin(i) == IsNA(raw.rows[i].c["gtin"])

BlankIngredients(i) ==
  /\ "ingredients_text" \in raw.cols
  /\ \/ IsNA(raw.rows[i].c["ingredients_text"])
     \/ \A k \in 1..Len(AsStr(raw.rows[i].c["ingredients_text"])) :
          AsStr(raw.rows[i].c["ingredients_text"])[k] = " "

Passes(i) == ~MissingGtin(i) /\ ~BlankIngredients(i)

RawIdx == 1..Len(raw.rows)

\* C1: the gtin values of the returned rows, read in output order, are
\* strictly ascending (sorted, and no two rows share a gtin).
C1_StrictlyAscending ==
  Done =>
    \A i \in 1..(Len(OutRows) - 1) :
      StrLess(OutRows[i].c["gtin"].s, OutRows[i + 1].c["gtin"].s)

\* Three input rows out of order, two of them sharing a gtin, cleaned to two.
C1_Witness ==
  /\ Done
  /\ Len(raw.rows) = 3
  /\ Len(OutRows) = 2
  /\ res.removed_duplicates = 1
  /\ OutRows[1].idx > OutRows[2].idx

\* C2 (as stated): no returned row has a missing or empty-string gtin, and
\* none has a missing or blank ingredients_text.
C2_NoEmptyGtinOrIngredients ==
  Done =>
    \A i \in 1..Len(OutRows) :
      /\ ~IsNA(OutRows[i].c["gtin"])
      /\ OutRows[i].c["gtin"].s # <<>>
      /\ "ingredients_text" \in OutCols =>
           /\ ~IsNA(OutRows[i].c["ingredients_text"])
           /\ Trimmed(OutRows[i].c["ingredients_text"].s) # <<>>

\* C2 (amended): no returned row has a missing gtin (an empty-string gtin
\* is kept), and when the table has an ingredients_text column no returned
\* row has it missing or blank after trimming.
C2_NoMissingGtinOrIngredients ==
  Done =>
    \A i \in 1..Len(OutRows) :
      /\ OutRows[i].c["gtin"].t = "str"
      /\ "ingredients_text" \in OutCols =>
           /\ OutRows[i].c["ingredients_text"].t = "str"
           /\ Trimmed(OutRows[i].c["ingredients_text"].s) # <<>>

\* A row without gtin and a row with blank ingredients were dropped and a
\* row was returned.
C2_Witness ==
  /\ Done
  /\ res.removed_no_gtin >= 1
  /\ res.removed_empty_ingredients >= 1
  /\ res.final_count >= 1

\* C3: label_is_anomaly of a returned row is 1 iff one of the row's raw
\* Text, Nutrient or Tag cells is present and, trimmed, ends with a caret;
\* identifier and Flag carets, inner carets, missing cells and a supplied
\* label do not count.
C3_LabelIffRawCaret ==
  Done =>
    \A i \in 1..Len(OutRows) :
      Label(OutRows[i]) = 1 <=>
        \E col \in (TEXT_COLS \cup NUTRIENT_COLS \cup TAG_COLS) \cap raw.cols :
          /\ ~IsNA(RawCell(OutRows[i], col))
          /\ CaretLast(AsStr(RawCell(OutRows[i], col)))

\* The label is set by a blank-padded nutrient caret alone.
C3_Witness ==
  /\ Done
  /\ Len(OutRows) = 1
  /\ "is_whole_grain" \in raw.cols
  /\ Label(OutRows[1]) = 1
  /\ RawCell(OutRows[1], "calories") = StrV(<<" ", "5", "0", "^", " ">>)
  /\ RawCell(OutRows[1], "ingredients_text") = StrV(<<"m", "i", "^", "l", "k", " ">>)
  /\ RawCell(OutRows[1], "is_whole_grain") = NA
  /\ RawCell(OutRows[1], "gtin") = StrV(<<"5", "^">>)

\* C4 (as stated): every Nutrient cell of a returned row is a number that
\* is non-negative or the sentinel -1.
C4_NonNegativeOrSentinel ==
  Done =>
    \A i \in 1..Len(OutRows) : \A col \in NUTRIENT_COLS \cap OutCols :
      NonNegative(OutRows[i].c[col]) \/ IsMinusOne(OutRows[i].c[col])

\* C4 (amended): every Nutrient cell of a returned row is a number, never
\* NaN/null; it is non-negative or -1 unless the raw cell itself reads as a
\* negative number, which is passed through as a negative number.
C4_NumberNeverNaN ==
  Done =>
    \A i \in 1..Len(OutRows) : \A col \in NUTRIENT_COLS \cap OutCols :
      /\ OutRows[i].c[col].t = "num"
      /\ \/ NonNegative(OutRows[i].c[col])
         \/ IsMinusOne(OutRows[i].c[col])
         \/ /\ ~IsNA(RawCell(OutRows[i], col))
            /\ Trimmed(AsStr(RawCell(OutRows[i], col))) # <<>>
            /\ Trimmed(AsStr(RawCell(OutRows[i], col)))[1] = "-"

\* An unparseable raw nutrient came out as the sentinel.
C4_Witness ==
  /\ Done
  /\ Len(OutRows) = 1
  /\ RawCell(OutRows[1], "calories") = StrV(<<"a", "b", "c">>)
  /\ IsMinusOne(OutRows[1].c["calories"])

\* s is word in some mix of upper and lower case.
SameIgnoringCase(s, word) ==
  /\ Len(s) = Len(word)
  /\ \A i \in 1..Len(s) : CharCode[s[i]] \in {CharCode[word[i]], CharCode[word[i]] + 32}

\* C5: clean does not raise on any Tag or Flag cell, and the output cell is
\* a boolean, true exactly when the cell's string form is "TRUE" in any
\* case or "1".
C5_StrictBoolean ==
  (pc # "raw" /\ "gtin" \in raw.cols) =>
    /\ res.status = "ok"
    /\ \A i \in 1..Len(OutRows) : \A col \in (TAG_COLS \cup FLAG_COLS) \cap OutCols :
         /\ OutRows[i].c[col].t = "bool"
         /\ OutRows[i].c[col].b <=>
              \/ SameIgnoringCase(AsStr(RawCell(OutRows[i], col)), <<"T", "R", "U", "E">>)
              \/ AsStr(RawCell(OutRows[i], col)) = <<"1">>

\* A lower-case "true" tag came out true and a caret-suffixed flag false.
C5_Witness ==
  /\ Done
  /\ Len(OutRows) = 1
  /\ {"is_whole_grain", "flag_type_error"} \subseteq raw.cols
  /\ RawCell(OutRows[1], "is_whole_grain") = StrV(<<"t", "r", "u", "e">>)
  /\ OutRows[1].c["is_whole_grain"] = BoolV(TRUE)
  /\ RawCell(OutRows[1], "flag_type_error") = StrV(<<"T", "R", "U", "E", "^">>)
  /\ OutRows[1].c["flag_type_error"] = BoolV(FALSE)

\* C6 (as stated): clean(clean(df)) is the same table as clean(df), every
\* cell including label_is_anomaly.
C6_Idempotent ==
  pc = "recleaned" => res2.status = "ok" /\ res2.df = res.df

\* C6 (amended): clean(clean(df)) has the same rows in the same order as
\* clean(df), drops no row, and every cell other than label_is_anomaly has
\* the same value; label_is_anomaly is recomputed from the cleaned cells
\* and can only fall from 1 to 0.
C6_IdempotentButLabel ==
  pc = "recleaned" =>
    /\ res2.status = "ok"
    /\ res2.df.cols = res.df.cols
    /\ Len(res2.df.rows) = Len(res.df.rows)
    /\ res2.total_removed = 0
    /\ \A i \in 1..Len(res.df.rows) :
         /\ res2.df.rows[i].idx = res.df.rows[i].idx
         /\ \A k \in res.df.cols \ {"label_is_anomaly"} :
              res2.df.rows[i].c[k] = res.df.rows[i].c[k]
         /\ Label(res2.df.rows[i]) <= Label(res.df.rows[i])

\* Cleaning twice: a row labelled 1 by a nutrient caret is labelled 0 the
\* second time, with its other cells unchanged.
C6_Witness ==
  /\ pc = "recleaned"
  /\ Len(res.df.rows) = 1
  /\ "is_whole_grain" \in raw.cols
  /\ Label(res.df.rows[1]) = 1
  /\ Label(res2.df.rows[1]) = 0
  /\ res2.df.rows[1].c["calories"] = IntV(50)
  /\ res2.df.rows[1].c["is_whole_grain"] = BoolV(TRUE)

\* C7: of the input rows that pass both filters and share a gtin, the row
\* kept is the earliest in the input, with its own coerced cells.
C7_KeepsEarliest ==
  Done =>
    \A i \in 1..Len(OutRows) :
      /\ \A j \in RawIdx :
           (Passes(j) /\ AsStr(raw.rows[j].c["gtin"]) = OutRows[i].c["gtin"].s)
             => OutRows[i].idx <= j
      /\ RawCell(OutRows[i], "calories") = StrV(<<"a", "b", "c">>)
           => IsMinusOne(OutRows[i].c["calories"])

\* C8: no Text cell of a returned row ends with a caret.
C8_TextCaretDiscarded ==
  Done =>
    \A i \in 1..Len(OutRows) : \A col \in TEXT_COLS \cap OutCols :
      ~IsNA(OutRows[i].c[col]) =>
        \/ OutRows[i].c[col].s = <<>>
        \/ OutRows[i].c[col].s[Len(OutRows[i].c[col].s)] # "^"

\* The value C9 prescribes for a raw nutrient cell: trim, drop exactly one
\* trailing caret, trim, parse; NaN when that is no decimal number.
OneCaretParse(v) ==
  LET s   == Trimmed(AsStr(v))
      rem == IF s # <<>> /\ s[Len(s)] = "^"
               THEN Trimmed(SubSeq(s, 1, Len(s) - 1)) ELSE s
  IN IF IsNA(v) THEN NA ELSE ParseNumber(rem)

\* C9: a Nutrient cell comes out as the number left after trimming and
\* dropping exactly one trailing caret, and as -1 when the cell is absent
\* or what is left is not a decimal number.
C9_OneCaretThenParse ==
  Done =>
    \A i \in 1..Len(OutRows) : \A col \in NUTRIENT_COLS \cap OutCols :
      IF IsNA(OneCaretParse(RawCell(OutRows[i], col)))
        THEN IsMinusOne(OutRows[i].c[col])
        ELSE SameNumber(OutRows[i].c[col], OneCaretParse(RawCell(OutRows[i], col)))

\* C10: the counters count, in stage order, the rows without gtin, then
\* the rows with blank ingredients among the rest, then the surplus rows
\* per gtin among those that passed both; they add up to total_removed =
\* initial_count - final_count, and none is negative.
C10_ExactAccounting ==
  Done =>
    /\ res.initial_count = Len(raw.rows)
    /\ res.final_count = Len(OutRows)
    /\ res.removed_no_gtin = Cardinality({i \in RawIdx : MissingGtin(i)})
    /\ res.removed_empty_ingredients =
         Cardinality({i \in RawIdx : ~MissingGtin(i) /\ BlankIngredients(i)})
    /\ res.removed_duplicates =
         Cardinality({i \in RawIdx : Passes(i)})
           - Cardinality({AsStr(raw.rows[i].c["gtin"]) : i \in {j \in RawIdx : Passes(j)}})
    /\ res.removed_no_gtin + res.removed_empty_ingredients + res.removed_duplicates
         = res.total_removed
    /\ res.total_removed = res.initial_count - res.final_count
    /\ res.removed_no_gtin >= 0
    /\ res.removed_empty_ingredients >= 0
    /\ res.removed_duplicates >= 0
    /\ {OutRows[i].idx : i \in 1..Len(OutRows)} \subseteq {i \in RawIdx : Passes(i)}

\* A row with neither gtin nor ingredients counts once, as no-identifier,
\* next to one duplicate.
C10_Witness ==
  /\ Done
  /\ \E i \in RawIdx : MissingGtin(i) /\ BlankIngredients(i)
  /\ res.removed_no_gtin = 1
  /\ res.removed_empty_ingredients = 0
  /\ res.removed_duplicates = 1
  /\ res.final_count = 1

====
